---- MODULE Spec2Model ----
(***************************************************************************)
(* A model of the OB-6 driver of MidiKraft (OB6.cpp): the device           *)
(* handshake (channelIfValidDeviceResponse), the control flag setters,     *)
(* the patch record builders (patchFromSysex, patchToSysex,                *)
(* patchToProgramDumpSysex) and the data file functions (isDataFile,       *)
(* loadData, requestDataItem).                                             *)
(*                                                                         *)
(* A MIDI message is modelled by its sysex data: the sequence of bytes     *)
(* getSysExData() points to, getSysExDataSize() long. The C++ index i is   *)
(* the TLA+ index i + 1.                                                   *)
(***************************************************************************)
EXTENDS Integers, Sequences, FiniteSets, TLC

VARIABLES
    op,                 \* the operation that ran last
    msg,                \* the message handed to it (empty: none)
    result,             \* what it returned
    localControl_,      \* OB6::localControl_
    midiControl_,       \* OB6::midiControl_
    globalSettings_,    \* the data file last given to setGlobalSettingsFromDataFile
    handshake,          \* the caller's view of the device detection
    channel_,           \* the channel the caller keeps for the device
    sent,               \* the messages the operation gave to the MIDI output
    reads,              \* the data indices the operation dereferenced
    unescapeLen,        \* the length argument it passed to unescapeSysex
    patchIn,            \* the patch data and program place handed to a patch writer
    messages,           \* the message vector handed to loadData
    dataTypeID,         \* the data type handed to a data file function
    asserted,           \* a jassert(false) was reached
    pc,                 \* the position of the thread that delivers a settings dump
    pending,            \* the flag bytes that thread read from the dump
    before,             \* the flags when that thread began its update
    observed            \* the flags a concurrent reader saw last

vars == <<op, msg, result, localControl_, midiControl_, globalSettings_, handshake,
          channel_, sent, reads, unescapeLen, patchIn, messages, dataTypeID,
          asserted, pc, pending, before, observed>>

----------------------------------------------------------------------------
(* Bounds of the model *)

\* The sysex data size of the longest settings dump delivered.
MaxDumpLen == 14
\* The patch payloads are generated from the seeds 0..MaxSeed.
MaxSeed == 1
\* Received patch dumps are cut to every length 0..MaxShortLen.
MaxShortLen == 8
\* The longest message vector handed to loadData.
MaxMessages == 2

----------------------------------------------------------------------------
(* Constants of the program *)

MIDI_CHANNEL == 2
MIDI_CONTROL == 7
LOCAL_CONTROL == 10

\* DSISynth(0b00101110)
midiModelID_ == 46
\* The vendor byte of every message of the device
kDSIVendor == 1

numberOfBanks == 10
numberOfPatches == 100

\* The expected length handed to unescapeSysex
kPatchDataLength == 1024

\* The data types of the driver, as dataTypeNames lists them
PATCH == "PATCH"
GLOBAL_SETTINGS == "GLOBAL_SETTINGS"
ALTERNATE_TUNING == "ALTERNATE_TUNING"

dataTypeNames == {PATCH, GLOBAL_SETTINGS, ALTERNATE_TUNING}

\* The command bytes
kProgramDataDump == 2
kEditBufferDump == 3
kGlobalSettingsRequest == 14
kGlobalSettingsDump == 15

\* gOB6GlobalSettings::definitions: the NRPN address of each parameter
NrpnOf(param) ==
    CASE param = MIDI_CHANNEL -> 1026
      [] param = MIDI_CONTROL -> 1035
      [] param = LOCAL_CONTROL -> 1031

----------------------------------------------------------------------------
(* Helpers *)

Min(a, b) == IF a < b THEN a ELSE b
Take(s, n) == SubSeq(s, 1, Min(n, Len(s)))
Drop(s, n) == SubSeq(s, n + 1, Len(s))

\* What a read past the end of the data may yield
GarbageBytes == {1, 247}

\* message.getSysExData()[i]; g is what the memory past the data holds
ReadByte(m, i, g) == IF i < Len(m) THEN m[i + 1] ELSE g
\* The values g worth drawing for a read of index i of m
GarbageAt(m, i) == IF i < Len(m) THEN {1} ELSE GarbageBytes

\* MidiChannel
invalidChannel == [valid |-> FALSE, omni |-> FALSE, zeroBased |-> 0]
omniChannel == [valid |-> TRUE, omni |-> TRUE, zeroBased |-> 0]
fromOneBase(c) == [valid |-> TRUE, omni |-> FALSE, zeroBased |-> c - 1]
toOneBasedInt(ch) == ch.zeroBased + 1

\* MidiProgramNumber
defaultProgramNumber == [set |-> FALSE, zeroBased |-> 0]
fromZeroBase(n) == [set |-> TRUE, zeroBased |-> n]

\* What is handed to the MIDI output
NRPN(address, value) == [type |-> "NRPN", address |-> address, value |-> value]
ControllerEvent(channel, controller, value) ==
    [type |-> "CC", channel |-> channel, controller |-> controller, value |-> value]
Sysex(data) == [type |-> "sysex", data |-> data]

----------------------------------------------------------------------------
(* Message classification *)

\* DSISynth::isOwnSysex
isOwnSysex(m) == Len(m) > 1 /\ m[1] = kDSIVendor /\ m[2] = midiModelID_

isGlobalSettingsDumpDropCommand(m) == isOwnSysex(m) /\ Len(m) > 2
isGlobalSettingsDump(m) ==
    isOwnSysex(m) /\ Len(m) > 2 /\ m[3] = kGlobalSettingsDump

\* DSISynth::isSingleProgramDump, DSISynth::isEditBufferDump
isSingleProgramDump(m) == isOwnSysex(m) /\ Len(m) > 2 /\ m[3] = kProgramDataDump
isEditBufferDump(m) == isOwnSysex(m) /\ Len(m) > 2 /\ m[3] = kEditBufferDump

\* MidiTuning::isTuningDump: a bulk tuning dump of the MIDI tuning standard
isTuningDump(m) == Len(m) > 3 /\ m[1] = 126 /\ m[3] = 8 /\ m[4] = 1

requestGlobalSettingsDump == Sysex(<<kDSIVendor, midiModelID_, kGlobalSettingsRequest>>)

\* [asserted, value] of OB6::isDataFile
isDataFile(m, type) ==
    IF isOwnSysex(m)
    THEN CASE type = PATCH ->
                [asserted |-> FALSE, value |-> isSingleProgramDump(m) \/ isEditBufferDump(m)]
           [] type = GLOBAL_SETTINGS ->
                [asserted |-> FALSE, value |-> isGlobalSettingsDump(m)]
           [] type = ALTERNATE_TUNING ->
                [asserted |-> FALSE, value |-> isTuningDump(m)]
           [] OTHER -> [asserted |-> TRUE, value |-> FALSE]
    ELSE [asserted |-> FALSE, value |-> FALSE]

isPartOfDataFileStream(m, type) == isDataFile(m, type)

GlobalSettingsFile(data) == [kind |-> "GlobalSettingsFile", type |-> GLOBAL_SETTINGS, data |-> data]
MTSFile(data) == [kind |-> "MTSFile", type |-> ALTERNATE_TUNING, data |-> data]

\* OB6::loadData: [asserted, files]
RECURSIVE loadData(_, _)
loadData(ms, type) ==
    IF ms = <<>>
    THEN [asserted |-> FALSE, files |-> <<>>]
    ELSE LET m == Head(ms)
             part == isPartOfDataFileStream(m, type)
             rest == loadData(Tail(ms), type)
             here ==
                 IF ~part.value
                 THEN [asserted |-> part.asserted, files |-> <<>>]
                 ELSE CASE type = GLOBAL_SETTINGS ->
                             [asserted |-> FALSE, files |-> <<GlobalSettingsFile(m)>>]
                        [] type = ALTERNATE_TUNING ->
                             \* MidiTuning::fromMidiMessage accepts what isTuningDump accepts
                             [asserted |-> FALSE, files |-> <<MTSFile(m)>>]
                        [] OTHER ->
                             [asserted |-> TRUE, files |-> <<>>]
         IN  [asserted |-> here.asserted \/ rest.asserted,
              files |-> here.files \o rest.files]

----------------------------------------------------------------------------
(* The messages delivered to the handshake *)

\* The header of a dump of this device, and headers with another vendor,
\* another model or another command byte
Headers ==
    {<<kDSIVendor, midiModelID_, kGlobalSettingsDump>>,
     <<2, midiModelID_, kGlobalSettingsDump>>,
     <<kDSIVendor, 47, kGlobalSettingsDump>>,
     <<kDSIVendor, midiModelID_, kGlobalSettingsRequest>>,
     <<kDSIVendor, midiModelID_, kProgramDataDump>>}

ChannelBytes == {0, 1, 16, 17, 127}
FlagBytes == {0, 1, 2}

\* A message of MaxDumpLen bytes with the given header, channel and flag bytes
FullMessage(h, ch, mc, lc) ==
    [i \in 1..MaxDumpLen |->
        CASE i = 1 -> h[1]
          [] i = 2 -> h[2]
          [] i = 3 -> h[3]
          [] i = 3 + MIDI_CHANNEL + 1 -> ch
          [] i = 3 + MIDI_CONTROL + 1 -> mc
          [] i = 3 + LOCAL_CONTROL + 1 -> lc
          [] OTHER -> 0]

OwnDumpHeader == <<kDSIVendor, midiModelID_, kGlobalSettingsDump>>

HandshakeMessages ==
    {FullMessage(OwnDumpHeader, ch, 0, 1) : ch \in ChannelBytes}
    \cup {FullMessage(OwnDumpHeader, 1, mc, lc) : mc \in FlagBytes, lc \in FlagBytes}
    \cup {Take(FullMessage(OwnDumpHeader, 1, 1, 1), n) : n \in 0..MaxDumpLen}
    \cup {FullMessage(h, 1, 1, 1) : h \in Headers}

----------------------------------------------------------------------------
(* The handshake and the flag setters *)

\* OB6::channelIfValidDeviceResponse. gl, gm, gc: what a read past the end of
\* the message yields for the local control, MIDI control and channel byte.
\* [channel, localControl, midiControl, globalSettings, reads]
channelIfValidDeviceResponseOf(m, gl, gm, gc) ==
    IF isGlobalSettingsDump(m)
    THEN LET midiChannel == ReadByte(m, MIDI_CHANNEL + 3, gc)
             dataFile == loadData(<<m>>, GLOBAL_SETTINGS).files
             base == [localControl |-> (ReadByte(m, 3 + LOCAL_CONTROL, gl) = 1),
                      midiControl |-> (ReadByte(m, 3 + MIDI_CONTROL, gm) = 1),
                      written |-> TRUE,
                      reads |-> {2, 3 + LOCAL_CONTROL, 3 + MIDI_CONTROL, MIDI_CHANNEL + 3}]
         IN  IF midiChannel = 0
             THEN base @@ [channel |-> omniChannel, settings |-> <<>>]
             ELSE base @@ [channel |-> fromOneBase(midiChannel),
                           settings |-> IF Len(dataFile) > 0 THEN <<dataFile[1]>> ELSE <<>>]
    ELSE [localControl |-> FALSE, midiControl |-> FALSE, written |-> FALSE,
          reads |-> IF isOwnSysex(m) /\ Len(m) > 2 THEN {2} ELSE {},
          channel |-> invalidChannel, settings |-> <<>>]

Idle == pc = "idle"

UnchangedPure == UNCHANGED <<unescapeLen, patchIn, messages, dataTypeID, asserted>>
UnchangedThread == UNCHANGED <<pc, pending, before, observed>>

\* OB6::deviceDetect, and the caller waiting for the answer
DeviceDetect ==
    /\ Idle
    /\ op' = "deviceDetect"
    /\ sent' = <<requestGlobalSettingsDump>>
    /\ handshake' = "AwaitingResponse"
    /\ result' = invalidChannel
    /\ reads' = {}
    /\ msg' = <<>>
    /\ UNCHANGED <<localControl_, midiControl_, globalSettings_, channel_>>
    /\ UnchangedPure /\ UnchangedThread

ChannelIfValidDeviceResponse ==
    /\ Idle
    /\ \E m \in HandshakeMessages :
       \E gl \in GarbageAt(m, 3 + LOCAL_CONTROL), gm \in GarbageAt(m, 3 + MIDI_CONTROL),
          gc \in GarbageAt(m, MIDI_CHANNEL + 3) :
        LET r == channelIfValidDeviceResponseOf(m, gl, gm, gc)
        IN  /\ op' = "channelIfValidDeviceResponse"
            /\ msg' = m
            /\ result' = r.channel
            /\ reads' = r.reads
            /\ localControl_' = IF r.written THEN r.localControl ELSE localControl_
            /\ midiControl_' = IF r.written THEN r.midiControl ELSE midiControl_
            /\ globalSettings_' = IF r.settings # <<>> THEN r.settings[1] ELSE globalSettings_
            \* the caller: a valid channel resolves the handshake
            /\ handshake' = IF r.channel.valid THEN "ChannelResolved" ELSE handshake
            /\ channel_' = IF r.channel.valid THEN r.channel ELSE channel_
    /\ sent' = <<>>
    /\ UnchangedPure /\ UnchangedThread

\* OB6::setMidiControl: what it sends
setMidiControlSends(isOn) == <<NRPN(1031, IF isOn THEN 1 ELSE 0)>>

\* OB6::setLocalControl: what it sends on the channel ch
setLocalControlSends(ch, localControlOn) ==
    <<NRPN(1035, IF localControlOn THEN 1 ELSE 0),
      ControllerEvent(toOneBasedInt(ch), 122, IF localControlOn THEN 1 ELSE 0)>>

SetMidiControl ==
    /\ Idle
    /\ \E isOn \in BOOLEAN :
        /\ op' = "setMidiControl"
        /\ sent' = setMidiControlSends(isOn)
        /\ midiControl_' = isOn
        /\ result' = [requested |-> isOn]
    /\ reads' = {}
    /\ msg' = <<>>
    /\ UNCHANGED <<localControl_, globalSettings_, handshake, channel_>>
    /\ UnchangedPure /\ UnchangedThread

SetLocalControl ==
    /\ Idle
    /\ \E localControlOn \in BOOLEAN :
        /\ op' = "setLocalControl"
        /\ sent' = setLocalControlSends(channel_, localControlOn)
        /\ localControl_' = localControlOn
        /\ result' = [requested |-> localControlOn]
    /\ reads' = {}
    /\ msg' = <<>>
    /\ UNCHANGED <<midiControl_, globalSettings_, handshake, channel_>>
    /\ UnchangedPure /\ UnchangedThread

\* The state after construction: the flags are not initialised by OB6::OB6
InitDriver ==
    /\ op = "init"
    /\ msg = <<>>
    /\ result = invalidChannel
    /\ localControl_ \in BOOLEAN
    /\ midiControl_ \in BOOLEAN
    /\ globalSettings_ = GlobalSettingsFile(<<>>)
    /\ handshake = "AwaitingResponse"
    /\ channel_ = invalidChannel
    /\ sent = <<>>
    /\ reads = {}
    /\ unescapeLen = 0
    /\ asserted = FALSE
    /\ pc = "idle"
    /\ pending = <<FALSE, FALSE>>
    /\ before = <<localControl_, midiControl_>>
    /\ observed = [pair |-> <<localControl_, midiControl_>>, inUpdate |-> FALSE,
                   before |-> <<localControl_, midiControl_>>,
                   after |-> <<FALSE, FALSE>>]

Init ==
    /\ InitDriver
    /\ patchIn = [data |-> <<>>, place |-> defaultProgramNumber]
    /\ messages = <<>>
    /\ dataTypeID = PATCH

Next ==
    \/ DeviceDetect
    \/ ChannelIfValidDeviceResponse
    \/ SetMidiControl
    \/ SetLocalControl

Spec == Init /\ [][Next]_vars

----------------------------------------------------------------------------
(* The handshake: claims C1, C2, C3 and C7, under Spec *)

\* A Global Settings Dump of this device, by its header bytes
MatchingDump(m) ==
    /\ Len(m) >= 3
    /\ m[1] = 1
    /\ m[2] = 46
    /\ m[3] = 15

\* Foreign vendor or model, another command byte, or 2 or fewer data bytes
NotMatching(m) ==
    \/ Len(m) <= 2
    \/ m[1] # 1
    \/ m[2] # 46
    \/ m[3] # 15

HandledDump ==
    /\ op = "channelIfValidDeviceResponse"
    /\ MatchingDump(msg)
    /\ Len(msg) > 3 + LOCAL_CONTROL

\* C1: for a matching Global Settings Dump the channel byte 0 yields the omni
\* channel, a byte c in 1..16 yields the one-based channel c, and every other
\* byte yields the invalid channel.
C1_ChannelByteMapping ==
    HandledDump =>
        LET c == msg[MIDI_CHANNEL + 3 + 1]
        IN  result = IF c = 0 THEN omniChannel
                     ELSE IF c \in 1..16 THEN fromOneBase(c)
                     ELSE invalidChannel

\* C2: when a matching Global Settings Dump with a channel byte in 0..16 was
\* handled, the cached local control flag is (byte at 3 + LOCAL_CONTROL = 1), the
\* cached MIDI control flag is (byte at 3 + MIDI_CONTROL = 1), and the cached
\* global settings are those of that message.
C2_AcceptedDumpIsCached ==
    (HandledDump /\ msg[MIDI_CHANNEL + 3 + 1] \in 0..16) =>
        /\ localControl_ = (msg[3 + LOCAL_CONTROL + 1] = 1)
        /\ midiControl_ = (msg[3 + MIDI_CONTROL + 1] = 1)
        /\ globalSettings_ = GlobalSettingsFile(msg)

\* C3: a message that is not a matching Global Settings Dump yields the invalid
\* channel, leaves the cached flags and global settings as they were, and leaves
\* an unresolved handshake unresolved.
C3_NonMatchingLeavesState ==
    [][(op' = "channelIfValidDeviceResponse" /\ NotMatching(msg')) =>
          /\ result' = invalidChannel
          /\ UNCHANGED <<localControl_, midiControl_, globalSettings_>>
          /\ (handshake = "AwaitingResponse" => handshake' = "AwaitingResponse")]_vars

\* A Global Settings Request of this device was handed to the handshake after a
\* dump had been cached: the cached flags differ from the bytes of the message.
C3_Witness ==
    /\ op = "channelIfValidDeviceResponse"
    /\ Len(msg) = MaxDumpLen
    /\ msg[1] = 1 /\ msg[2] = 46 /\ msg[3] = 14
    /\ msg[3 + LOCAL_CONTROL + 1] = 1
    /\ ~localControl_
    /\ globalSettings_.data # <<>>
    /\ result = invalidChannel
    /\ handshake = "AwaitingResponse"

\* C7: setLocalControl sends an NRPN write to the registry address of Local
\* Control and a controller change 0x7a on the device's channel, setMidiControl
\* sends an NRPN write to the registry address of MIDI Control, the value is 1
\* for on and 0 for off, and the cached flag is the requested value.
C7_SettersUseOwnAddress ==
    /\ op = "setLocalControl" =>
         LET v == IF result.requested THEN 1 ELSE 0
         IN  /\ sent = <<NRPN(NrpnOf(LOCAL_CONTROL), v),
                         ControllerEvent(toOneBasedInt(channel_), 122, v)>>
             /\ localControl_ = result.requested
    /\ op = "setMidiControl" =>
         LET v == IF result.requested THEN 1 ELSE 0
         IN  /\ sent = <<NRPN(NrpnOf(MIDI_CONTROL), v)>>
             /\ midiControl_ = result.requested

----------------------------------------------------------------------------
(* The sysex codec of DSISynth *)

\* DSISynth::escapeSysex: the high nibble of each byte, then its low nibble
escapeSysex(data) ==
    [i \in 1..(2 * Len(data)) |->
        IF i % 2 = 1 THEN data[(i + 1) \div 2] \div 16 ELSE data[i \div 2] % 16]

\* DSISynth::unescapeSysex: sysExData is the data from the start pointer on; one
\* byte per pair of the first sysExLen bytes, at most expectedLength bytes
unescapeSysex(sysExData, sysExLen, expectedLength) ==
    LET avail == IF sysExLen < 0 THEN 0 ELSE Min(sysExLen, Len(sysExData))
        n == Min(expectedLength, avail \div 2)
    IN  [i \in 1..n |-> 16 * (sysExData[2 * i - 1] % 16) + (sysExData[2 * i] % 16)]

----------------------------------------------------------------------------
(* The patch record builders *)

noPatch == [kind |-> "none"]
OB6Patch(type, data, place) == [kind |-> "OB6Patch", type |-> type, data |-> data, place |-> place]

patchStartIndexAlways3(messageCode) == 3
\* int startIndex = messageCode == 0x02 ? 5 : 3
patchStartIndex(messageCode) == IF messageCode = kProgramDataDump THEN 5 ELSE 3

patchPlaceOfBankTimes128(bank, program) == fromZeroBase(bank * 128 + program)
\* MidiProgramNumber::fromZeroBase(data[3] * 100 + data[4])
patchPlaceOf(bank, program) == fromZeroBase(bank * 100 + program)

\* OB6::patchFromSysex. gb, gp: what a read past the end of the message yields
\* for the bank and the program byte. [patch, reads, unescapeLen]
patchFromSysex(m, gb, gp) ==
    IF isOwnSysex(m) /\ Len(m) > 2
    THEN LET messageCode == m[3]
         IN  IF messageCode = kProgramDataDump \/ messageCode = kEditBufferDump
             THEN LET startIndex == patchStartIndex(messageCode)
                      globalDumpData ==
                          unescapeSysex(Drop(m, startIndex), Len(m) - startIndex,
                                        kPatchDataLength)
                      place == IF messageCode = kProgramDataDump
                               THEN patchPlaceOf(ReadByte(m, 3, gb), ReadByte(m, 4, gp))
                               ELSE defaultProgramNumber
                  IN  [patch |-> OB6Patch(PATCH, globalDumpData, place),
                       reads |-> IF messageCode = kProgramDataDump THEN {2, 3, 4} ELSE {2},
                       unescapeLen |-> Len(m) - startIndex]
             ELSE [patch |-> noPatch, reads |-> {2}, unescapeLen |-> 0]
    ELSE [patch |-> noPatch, reads |-> {}, unescapeLen |-> 0]

\* OB6::patchToSysex
patchToSysex(data) ==
    <<kDSIVendor, midiModelID_, kEditBufferDump>> \o escapeSysex(data)

\* OB6::patchToProgramDumpSysex
patchToProgramDumpSysex(data, programNumber) ==
    LET programPlace == programNumber.zeroBased
    IN  <<kDSIVendor, midiModelID_, kProgramDataDump,
          (programPlace \div numberOfPatches) % 256,
          (programPlace % numberOfPatches) % 256>> \o escapeSysex(data)

\* The patch payloads written: kPatchDataLength bytes each
PatchData(seed) == [i \in 1..kPatchDataLength |-> (seed * (i + 128)) % 256]

PatchInputs ==
    [data : {PatchData(seed) : seed \in 0..MaxSeed},
     place : {fromZeroBase(n) : n \in 0..(numberOfBanks * numberOfPatches - 1)}]

\* m with the byte at the data index i replaced by b
WithByte(m, i, b) == [m EXCEPT ![i + 1] = b]

ProgramDump217 == patchToProgramDumpSysex(PatchData(1), fromZeroBase(217))
EditBufferDump1 == patchToSysex(PatchData(1))

\* The messages received from the device: dumps cut short, a dump one byte
\* short, a dump with a byte too many, and dumps of another vendor, model or
\* command
ReceivedPatchMessages ==
    {Take(d, n) : d \in {ProgramDump217, EditBufferDump1}, n \in 0..MaxShortLen}
    \cup {Take(d, Len(d) - 1) : d \in {ProgramDump217, EditBufferDump1}}
    \cup {d \o <<1>> : d \in {ProgramDump217, EditBufferDump1}}
    \cup {WithByte(Take(ProgramDump217, MaxShortLen), 0, 2),
          WithByte(Take(ProgramDump217, MaxShortLen), 1, 47),
          WithByte(Take(ProgramDump217, MaxShortLen), 2, kGlobalSettingsRequest),
          WithByte(Take(ProgramDump217, MaxShortLen), 2, kGlobalSettingsDump),
          WithByte(Take(ProgramDump217, MaxShortLen), 2, 4)}

\* The patch functions are const: they neither read nor write the flags
InitPure ==
    /\ InitDriver
    /\ localControl_ = FALSE
    /\ midiControl_ = FALSE

InitPatch ==
    /\ InitPure
    /\ dataTypeID = PATCH
    /\ \/ patchIn \in PatchInputs /\ messages = <<>>
       \/ /\ patchIn = [data |-> <<>>, place |-> defaultProgramNumber]
          /\ \E m \in ReceivedPatchMessages : messages = <<m>>

UnchangedDriver ==
    UNCHANGED <<localControl_, midiControl_, globalSettings_, handshake, channel_>>

\* patchFromSysex on a message received from the device
PatchFromSysex ==
    /\ op = "init" /\ messages # <<>>
    /\ \E gb \in GarbageAt(messages[1], 3), gp \in GarbageAt(messages[1], 4) :
        LET r == patchFromSysex(messages[1], gb, gp)
        IN  /\ msg' = messages[1]
            /\ result' = r.patch
            /\ reads' = r.reads
            /\ unescapeLen' = r.unescapeLen
    /\ op' = "patchFromSysex"
    /\ UNCHANGED <<sent, patchIn, messages, dataTypeID, asserted>>
    /\ UnchangedDriver /\ UnchangedThread

PatchToSysex ==
    /\ op = "init" /\ patchIn.data # <<>>
    /\ op' = "patchToSysex"
    /\ sent' = <<Sysex(patchToSysex(patchIn.data))>>
    /\ UNCHANGED <<msg, result, reads, unescapeLen, patchIn, messages, dataTypeID, asserted>>
    /\ UnchangedDriver /\ UnchangedThread

PatchToProgramDumpSysex ==
    /\ op = "init" /\ patchIn.data # <<>>
    /\ op' = "patchToProgramDumpSysex"
    /\ sent' = <<Sysex(patchToProgramDumpSysex(patchIn.data, patchIn.place))>>
    /\ UNCHANGED <<msg, result, reads, unescapeLen, patchIn, messages, dataTypeID, asserted>>
    /\ UnchangedDriver /\ UnchangedThread

\* The message written comes back: patchFromSysex on the edit buffer dump
PatchFromSysexOfSent ==
    /\ op = "patchToSysex"
    /\ LET r == patchFromSysex(sent[1].data, 0, 0)
       IN  /\ msg' = sent[1].data
           /\ result' = r.patch
           /\ reads' = r.reads
           /\ unescapeLen' = r.unescapeLen
    /\ op' = "patchFromSysexOfSent"
    /\ UNCHANGED <<sent, patchIn, messages, dataTypeID, asserted>>
    /\ UnchangedDriver /\ UnchangedThread

\* OB6::patchFromProgramDumpSysex on the program dump written
PatchFromProgramDumpSysex ==
    /\ op = "patchToProgramDumpSysex"
    /\ LET r == patchFromSysex(sent[1].data, 0, 0)
       IN  /\ msg' = sent[1].data
           /\ result' = r.patch
           /\ reads' = r.reads
           /\ unescapeLen' = r.unescapeLen
    /\ op' = "patchFromProgramDumpSysex"
    /\ UNCHANGED <<sent, patchIn, messages, dataTypeID, asserted>>
    /\ UnchangedDriver /\ UnchangedThread

NextPatch ==
    \/ PatchFromSysex
    \/ PatchToSysex
    \/ PatchToProgramDumpSysex
    \/ PatchFromSysexOfSent
    \/ PatchFromProgramDumpSysex

SpecPatch == InitPatch /\ [][NextPatch]_vars

----------------------------------------------------------------------------
(* The patch record builders: claims C4, C5, C6 and C10, under SpecPatch *)

OwnMessage(m) == Len(m) >= 3 /\ m[1] = 1 /\ m[2] = 46

\* The payload a receiver decodes from the transport bytes x
Decoded(x) ==
    [i \in 1..Min(1024, Len(x) \div 2) |-> 16 * (x[2 * i - 1] % 16) + (x[2 * i] % 16)]

ParsedPatch == op \in {"patchFromSysex", "patchFromSysexOfSent", "patchFromProgramDumpSysex"}

\* C4: patchFromSysex builds a record exactly for the messages of this device
\* with command byte 0x02 or 0x03; for 0x02 with bank b and program p the slot
\* is b*100+p and the payload is decoded from data index 5 on; for 0x03 the
\* record has the default program number and the payload is decoded from data
\* index 3 on.
C4_PatchFromSysexBuilds ==
    ParsedPatch =>
        /\ (result # noPatch) <=> (OwnMessage(msg) /\ msg[3] \in {2, 3})
        /\ (OwnMessage(msg) /\ msg[3] = 2 /\ Len(msg) >= 5) =>
              /\ result.place = [set |-> TRUE, zeroBased |-> msg[4] * 100 + msg[5]]
              /\ result.data = Decoded(SubSeq(msg, 6, Len(msg)))
        /\ (OwnMessage(msg) /\ msg[3] = 3) =>
              /\ result.place = defaultProgramNumber
              /\ result.data = Decoded(SubSeq(msg, 4, Len(msg)))

\* A received program dump of bank 2, program 17 with some of its payload was
\* made a record of slot 217.
C4_Witness ==
    /\ op = "patchFromSysex"
    /\ Len(msg) = MaxShortLen
    /\ OwnMessage(msg) /\ msg[3] = 2 /\ msg[4] = 2 /\ msg[5] = 17
    /\ result.place.zeroBased = 217
    /\ Len(result.data) = (MaxShortLen - 5) \div 2

\* C5: the message patchToProgramDumpSysex writes for a payload d and a slot s
\* is read back by patchFromSysex as a record of slot s with payload d; the
\* message patchToSysex writes is read back as a record with payload d and no
\* slot.
C5_RoundTrip ==
    /\ op = "patchFromProgramDumpSysex" =>
          /\ result # noPatch
          /\ result.place = patchIn.place
          /\ result.data = patchIn.data
    /\ op = "patchFromSysexOfSent" =>
          /\ result # noPatch
          /\ result.place = defaultProgramNumber
          /\ result.data = patchIn.data

\* The program dump of slot 217 came back with its 1024 bytes.
C5_Witness ==
    /\ op = "patchFromProgramDumpSysex"
    /\ patchIn.place.zeroBased = 217
    /\ patchIn.data = PatchData(1)
    /\ result.place.zeroBased = 217
    /\ Len(result.data) = 1024
    /\ result.data[200] = 72

\* C6: a program or edit buffer dump with fewer transport bytes than the 1024
\* byte patch needs yields no record.
C6_TruncatedIsDiscarded ==
    (/\ op = "patchFromSysex"
     /\ OwnMessage(msg)
     /\ msg[3] \in {2, 3}
     /\ Len(msg) - (IF msg[3] = 2 THEN 5 ELSE 3) < 2 * 1024) => result = noPatch

\* C10: every data index patchFromSysex reads is less than the data size, and
\* the length it hands to unescapeSysex is not negative.
C10_ReadsInBounds ==
    ParsedPatch =>
        /\ \A i \in reads : i < Len(msg)
        /\ unescapeLen >= 0

----------------------------------------------------------------------------
(* The data file functions *)

\* DSISynth::requestPatch and MidiTuning::createTuningDumpRequest, by their arguments
requestPatch(itemNo) == [type |-> "requestPatch", itemNo |-> itemNo]
createTuningDumpRequest(deviceID, program) ==
    [type |-> "tuningDumpRequest", deviceID |-> deviceID, program |-> program]

\* OB6::requestDataItem: [asserted, messages]
requestDataItem(itemNo, type) ==
    CASE type = PATCH -> [asserted |-> FALSE, messages |-> <<requestPatch(itemNo)>>]
      [] type = GLOBAL_SETTINGS ->
            [asserted |-> FALSE, messages |-> <<requestGlobalSettingsDump>>]
      [] type = ALTERNATE_TUNING ->
            [asserted |-> FALSE,
             messages |-> <<createTuningDumpRequest(1, fromZeroBase(itemNo))>>]
      [] OTHER -> [asserted |-> TRUE, messages |-> <<>>]

\* The messages handed to the data file functions
DataMessages ==
    {Take(ProgramDump217, MaxShortLen),
     Take(EditBufferDump1, MaxShortLen),
     FullMessage(OwnDumpHeader, 1, 1, 1),
     <<kDSIVendor, midiModelID_, kGlobalSettingsRequest>>,
     <<kDSIVendor, midiModelID_>>,
     <<2, midiModelID_, kEditBufferDump, 0, 0>>,
     <<126, 0, 8, 1, 0, 0>>}

RECURSIVE SeqsUpTo(_, _)
SeqsUpTo(S, n) ==
    IF n = 0 THEN {<<>>}
    ELSE LET shorter == SeqsUpTo(S, n - 1)
         IN  shorter \cup {Append(q, x) : q \in shorter, x \in S}

InitData ==
    /\ InitPure
    /\ patchIn = [data |-> <<>>, place |-> defaultProgramNumber]
    /\ messages \in SeqsUpTo(DataMessages, MaxMessages)
    /\ dataTypeID \in dataTypeNames

UnchangedInputs == UNCHANGED <<reads, unescapeLen, patchIn, messages, dataTypeID>>

RequestDataItem ==
    /\ op = "init"
    /\ \E itemNo \in 0..MaxMessages :
        LET r == requestDataItem(itemNo, dataTypeID)
        IN  /\ sent' = r.messages
            /\ result' = r.messages
            /\ asserted' = r.asserted
    /\ op' = "requestDataItem"
    /\ msg' = <<>>
    /\ UnchangedInputs /\ UnchangedDriver /\ UnchangedThread

IsDataFile ==
    /\ op = "init" /\ messages # <<>>
    /\ LET r == isDataFile(messages[1], dataTypeID)
       IN  /\ result' = r.value
           /\ asserted' = r.asserted
    /\ op' = "isDataFile"
    /\ msg' = messages[1]
    /\ UNCHANGED sent
    /\ UnchangedInputs /\ UnchangedDriver /\ UnchangedThread

LoadData ==
    /\ op = "init"
    /\ LET r == loadData(messages, dataTypeID)
       IN  /\ result' = r.files
           /\ asserted' = r.asserted
    /\ op' = "loadData"
    /\ UNCHANGED <<msg, sent>>
    /\ UnchangedInputs /\ UnchangedDriver /\ UnchangedThread

NextData ==
    \/ RequestDataItem
    \/ IsDataFile
    \/ LoadData

SpecData == InitData /\ [][NextData]_vars

\* C9: for the data types dataTypeNames lists, requestDataItem, isDataFile and
\* loadData never reach the assertion of the unhandled record type.
C9_NoUnhandledType ==
    (op \in {"requestDataItem", "isDataFile", "loadData"} /\ dataTypeID \in {"PATCH", "GLOBAL_SETTINGS", "ALTERNATE_TUNING"})
        => ~asserted

----------------------------------------------------------------------------
(* The handshake delivered by one thread, statement by statement, while      *)
(* another thread reads the flags                                           *)

ConcMessages ==
    {FullMessage(OwnDumpHeader, ch, mc, lc) : ch \in {0, 1}, mc \in {0, 1}, lc \in {0, 1}}
    \cup {FullMessage(<<kDSIVendor, midiModelID_, kGlobalSettingsRequest>>, 1, 1, 1)}

\* if (isGlobalSettingsDump(message)): taken
BeginResponse ==
    /\ pc = "idle"
    /\ \E m \in ConcMessages :
        /\ isGlobalSettingsDump(m)
        /\ msg' = m
        /\ pending' = <<ReadByte(m, 3 + LOCAL_CONTROL, 0) = 1,
                        ReadByte(m, 3 + MIDI_CONTROL, 0) = 1>>
    /\ before' = <<localControl_, midiControl_>>
    /\ pc' = "writeLocalControl"
    /\ op' = "channelIfValidDeviceResponse"
    /\ sent' = <<>>
    /\ UNCHANGED <<result, reads, observed>>
    /\ UnchangedDriver /\ UnchangedPure

\* if (isGlobalSettingsDump(message)): not taken
RejectResponse ==
    /\ pc = "idle"
    /\ \E m \in ConcMessages :
        /\ ~isGlobalSettingsDump(m)
        /\ msg' = m
    /\ result' = invalidChannel
    /\ op' = "channelIfValidDeviceResponse"
    /\ sent' = <<>>
    /\ UNCHANGED <<reads, pc, pending, before, observed>>
    /\ UnchangedDriver /\ UnchangedPure

\* localControl_ = message.getSysExData()[3 + LOCAL_CONTROL] == 1
WriteLocalControl ==
    /\ pc = "writeLocalControl"
    /\ localControl_' = pending[1]
    /\ pc' = "writeMidiControl"
    /\ UNCHANGED <<op, msg, result, midiControl_, globalSettings_, handshake, channel_,
                   sent, reads, pending, before, observed>>
    /\ UnchangedPure

\* midiControl_ = message.getSysExData()[3 + MIDI_CONTROL] == 1
WriteMidiControl ==
    /\ pc = "writeMidiControl"
    /\ midiControl_' = pending[2]
    /\ pc' = "finish"
    /\ UNCHANGED <<op, msg, result, localControl_, globalSettings_, handshake, channel_,
                   sent, reads, pending, before, observed>>
    /\ UnchangedPure

\* The rest of channelIfValidDeviceResponse, and the caller taking the channel
FinishResponse ==
    /\ pc = "finish"
    /\ LET r == channelIfValidDeviceResponseOf(msg, 0, 0, 0)
       IN  /\ result' = r.channel
           /\ reads' = r.reads
           /\ globalSettings_' = IF r.settings # <<>> THEN r.settings[1] ELSE globalSettings_
           /\ handshake' = IF r.channel.valid THEN "ChannelResolved" ELSE handshake
           /\ channel_' = IF r.channel.valid THEN r.channel ELSE channel_
    /\ pc' = "idle"
    /\ UNCHANGED <<op, msg, localControl_, midiControl_, sent, pending, before, observed>>
    /\ UnchangedPure

\* Another thread reads both flags
ReadFlags ==
    /\ observed' = [pair |-> <<localControl_, midiControl_>>,
                    inUpdate |-> pc # "idle",
                    before |-> before,
                    after |-> pending]
    /\ UNCHANGED <<op, msg, result, localControl_, midiControl_, globalSettings_, handshake,
                   channel_, sent, reads, pc, pending, before>>
    /\ UnchangedPure

InitConc ==
    /\ InitDriver
    /\ patchIn = [data |-> <<>>, place |-> defaultProgramNumber]
    /\ messages = <<>>
    /\ dataTypeID = GLOBAL_SETTINGS

NextConc ==
    \/ BeginResponse
    \/ RejectResponse
    \/ WriteLocalControl
    \/ WriteMidiControl
    \/ FinishResponse
    \/ SetMidiControl
    \/ SetLocalControl
    \/ ReadFlags

SpecConc == InitConc /\ [][NextConc]_vars

\* C8: a reader running beside the handshake sees the flags as they were before
\* the update of a Global Settings Dump or as they are after it, never the new
\* local control flag with the old MIDI control flag.
C8_NoTornFlags ==
    observed.inUpdate => observed.pair \in {observed.before, observed.after}

====
